---- MODULE Spec2Model ----
(***************************************************************************)
(* FillEvents workload of mlmd_bench                                       *)
(* (ml_metadata/tools/mlmd_bench/fill_events_workload.cc).                 *)
(*                                                                         *)
(* One FillEvents instance at a time works against one metadata store.     *)
(* SetUpImpl pre-generates num_operations_ PutEventsRequest batches by     *)
(* rejection sampling, RunOpImpl sends one batch, TearDownImpl clears the  *)
(* batches.  The for-loop of SetUpImpl and the while-loop of GenerateEvent *)
(* are unrolled into one action per loop test / loop body.                 *)
(***************************************************************************)
EXTENDS Naturals, Sequences, FiniteSets

\* ------------------------------------------------------------------ bounds
NumArtifacts == 3    \* size of the existing-artifact population
MaxSetUps == 2       \* SetUp calls the harness makes in one benchmark

\* ------------------------------------------------------- the configurations
\* fill_events_config_.num_events(): the inclusive range of events per operation.
num_events_config == [minimum |-> 1, maximum |-> 2]
\* The values of num_operations the workload is constructed with.
OperationCounts == {1, 2}

\* ------------------------------------------------- the injected population
\* Ids of the nodes GetExistingNodes hands back, in order.
existing_artifact_nodes == [k \in 1..NumArtifacts |-> 10 + k]
existing_execution_nodes == <<21>>

ArtifactIds == {existing_artifact_nodes[k] : k \in 1..Len(existing_artifact_nodes)}
ExecutionIds == {existing_execution_nodes[k] : k \in 1..Len(existing_execution_nodes)}

\* ------------------------------------------------------------- the store
EventTypes == {"INPUT", "OUTPUT"}
\* Status codes a store call may fail with.
QueryErrors == {"INTERNAL", "NOT_FOUND"}
QueryOutcomes == {"OK"} \cup QueryErrors
WriteOutcomes == {"OK", "INTERNAL"}
\* The events the store may hold before the first instance is constructed.
PreExistingEvents ==
  {<<existing_artifact_nodes[1], "OUTPUT">>, <<existing_artifact_nodes[2], "INPUT">>}

VARIABLES
  specification,         \* fill_events_config_.specification()
  num_operations_,       \* FillEvents::num_operations_
  output_artifact_ids_,  \* FillEvents::output_artifact_ids_
  work_items_,           \* FillEvents::work_items_
  store,                 \* the <<artifact id, type>> pairs the store holds an event for
  pc,                    \* "idle" | "for" (SetUpImpl loop test) | "while" (GenerateEvent loop test)
  phase,                 \* lifecycle as the harness sees it: "Unstarted" | "SetUp" | "Ready" |
                         \* "Failed" (SetUp returned an error) | "Done" (torn down after a SetUp that succeeded)
  status,                \* the last phase call and the status it returned
  op_i,                  \* SetUpImpl: i
  num_events,            \* SetUpImpl: num_events
  ev_i,                  \* GenerateEvent: i
  put_request,           \* SetUpImpl: put_request (the events added so far)
  curr_bytes,            \* SetUpImpl: curr_bytes
  draw,                  \* what the last while-loop body did (NoDraw after any other step)
  sent,                  \* the request RunOpImpl just handed to PutEvents (NoRequest after any other step)
  setup_base,            \* Len(work_items_) when the current/last SetUp began
  eligible,              \* artifacts unused in set and store when the current/last SetUp began
  demand,                \* events requested so far by the current/last SetUp
  generated,             \* per artifact id, OUTPUT events this instance has generated
  pre_store,             \* the store as it was when this instance was constructed
  next_run,              \* index of the next Run call
  n_setups,              \* SetUp calls made so far
  instance               \* "first" | "second": which instance is the live one

vars == <<specification, num_operations_, output_artifact_ids_, work_items_, store,
          pc, phase, status, op_i, num_events, ev_i, put_request, curr_bytes, draw,
          sent, setup_base, eligible, demand, generated, pre_store, next_run,
          n_setups, instance>>

config == <<specification, num_operations_>>
locals == <<op_i, num_events, ev_i, put_request, curr_bytes>>
setup_ghosts == <<setup_base, eligible, demand>>

NoDraw == [kind |-> "none"]
NoStatus == [op |-> "none", code |-> "OK"]
NoRequest == <<>>

\* ---------------------------------------------------------------- helpers
RECURSIVE SumBytes(_)
\* Sum of the sizes of the step keys of a path.
SumBytes(steps) ==
  IF steps = <<>> THEN 0 ELSE Len(Head(steps)) + SumBytes(Tail(steps))

\* The key "foo", as its characters.
FooKey == <<"f", "o", "o">>

GetTransferredBytes(event) == (8 * 2 + 1) + SumBytes(event.path)

\* Variant: the two ids are set into each other's field.
SetEvent_SwapsIds(artifact_id, execution_id) ==
  [type |-> IF specification = "INPUT" THEN "INPUT" ELSE "OUTPUT",
   artifact_id |-> execution_id,
   execution_id |-> artifact_id,
   path |-> <<FooKey>>]

\* SetEvent: the event added to put_request.
SetEvent(artifact_id, execution_id) ==
  [type |-> IF specification = "INPUT" THEN "INPUT" ELSE "OUTPUT",
   artifact_id |-> artifact_id,
   execution_id |-> execution_id,
   path |-> <<FooKey>>]

\* Variant: the early return is lost, so a known id is reported as not used.
CheckDuplicateOutputArtifactInCurrentSetUp_NeverUsed(output_artifact_id, ids) ==
  [used |-> FALSE, ids |-> ids \cup {output_artifact_id}]

\* Variant: the id is inserted before it is looked up, so every id is reported used.
CheckDuplicateOutputArtifactInCurrentSetUp_InsertFirst(output_artifact_id, ids) ==
  [used |-> output_artifact_id \in (ids \cup {output_artifact_id}),
   ids |-> ids \cup {output_artifact_id}]

\* Variant: the id is looked up but never inserted.
CheckDuplicateOutputArtifactInCurrentSetUp_NoInsert(output_artifact_id, ids) ==
  [used |-> output_artifact_id \in ids, ids |-> ids]

\* CheckDuplicateOutputArtifactInCurrentSetUp: the returned bool and the set after.
CheckDuplicateOutputArtifactInCurrentSetUp(output_artifact_id, ids) ==
  IF output_artifact_id \in ids
    THEN [used |-> TRUE, ids |-> ids]
    ELSE [used |-> FALSE, ids |-> ids \cup {output_artifact_id}]

\* The store's answer to GetEventsByArtifactIDs when the call succeeds: the types of
\* the events stored for the artifact.
GetEventsByArtifactIDs(artifact_id) ==
  {type \in EventTypes : <<artifact_id, type>> \in store}

\* Variant: the scan of the response for an OUTPUT event is lost.
CheckDuplicateOutputArtifactInDb_NoScan(output_artifact_id, outcome) ==
  IF outcome # "OK" THEN outcome ELSE "OK"

\* CheckDuplicateOutputArtifactInDb: the status returned, given the query's outcome.
CheckDuplicateOutputArtifactInDb(output_artifact_id, outcome) ==
  IF outcome # "OK" THEN outcome
  ELSE IF \E type \in GetEventsByArtifactIDs(output_artifact_id) : type = "OUTPUT"
         THEN "ALREADY_EXISTS"
         ELSE "OK"

\* Variant: every failed check is taken for a rejection and retried.
Aborts_Never(st) == FALSE

\* GenerateEvent, line 133: the status that makes it return at once.
Aborts(st) == st # "OK" /\ st # "ALREADY_EXISTS"

\* Variant: only the run-scoped check makes a draw be rejected.
Rejected_LocalOnly(artifact_has_been_outputted_in_setup, st) ==
  artifact_has_been_outputted_in_setup

\* GenerateEvent, line 137: rejection sampling.
Rejected(artifact_has_been_outputted_in_setup, st) ==
  artifact_has_been_outputted_in_setup \/ st # "OK"

\* PutEvents: the store after a request was written.
PutEvents(req) ==
  store \cup {<<req[k].artifact_id, req[k].type>> : k \in 1..Len(req)}

Eligible(ids) == {a \in ArtifactIds : <<a, "OUTPUT">> \notin store /\ a \notin ids}

\* ------------------------------------------------------------------- Init
\* FillEvents::FillEvents against a store that may already hold events.
Init ==
  /\ specification \in EventTypes
  /\ num_operations_ \in OperationCounts
  /\ output_artifact_ids_ = {}
  /\ work_items_ = <<>>
  /\ store \in SUBSET PreExistingEvents
  /\ pc = "idle"
  /\ phase = "Unstarted"
  /\ status = NoStatus
  /\ op_i = 0 /\ num_events = 0 /\ ev_i = 0 /\ put_request = <<>> /\ curr_bytes = 0
  /\ draw = NoDraw
  /\ sent = NoRequest
  /\ setup_base = 0 /\ eligible = {} /\ demand = 0
  /\ generated = [a \in ArtifactIds |-> 0]
  /\ pre_store = store
  /\ next_run = 0
  /\ n_setups = 0
  /\ instance = "first"

\* ------------------------------------------------------------ the harness
\* Which phase call the benchmark harness may make next.
HarnessMayCall(op) ==
  /\ pc = "idle"
  /\ CASE op = "SetUp" -> phase \in {"Unstarted", "Failed", "Done"} /\ n_setups < MaxSetUps
       [] op = "Run" -> phase = "Ready" /\ next_run < num_operations_
       [] op = "TearDown" -> TRUE
       [] op = "Construct" -> instance = "first" /\ n_setups < MaxSetUps

ResetLocals ==
  /\ op_i' = 0 /\ num_events' = 0 /\ ev_i' = 0 /\ put_request' = <<>> /\ curr_bytes' = 0

\* A second, identically configured instance is constructed against the same store.
Construct ==
  /\ HarnessMayCall("Construct")
  /\ output_artifact_ids_' = {}
  /\ work_items_' = <<>>
  /\ phase' = "Unstarted"
  /\ status' = NoStatus
  /\ draw' = NoDraw
  /\ sent' = NoRequest
  /\ setup_base' = 0 /\ eligible' = {} /\ demand' = 0
  /\ generated' = [a \in ArtifactIds |-> 0]
  /\ pre_store' = store
  /\ next_run' = 0
  /\ instance' = "second"
  /\ UNCHANGED <<config, store, pc, locals, n_setups>>

\* ---------------------------------------------------------------- SetUpImpl
\* Lines 158-183: entry, GetExistingNodes and the two distributions.
SetUpBegin ==
  /\ HarnessMayCall("SetUp")
  /\ n_setups' = n_setups + 1
  /\ draw' = NoDraw
  /\ next_run' = 0
  /\ setup_base' = Len(work_items_)
  /\ eligible' = Eligible(output_artifact_ids_)
  /\ demand' = 0
  /\ \E outcome \in QueryOutcomes :
       IF outcome = "OK"
         THEN /\ pc' = "for"
              /\ phase' = "SetUp"
              /\ status' = [op |-> "SetUp", code |-> "running"]
         ELSE /\ pc' = "idle"
              /\ phase' = "Failed"
              /\ status' = [op |-> "SetUp", code |-> outcome]
  /\ ResetLocals
  /\ sent' = NoRequest
  /\ UNCHANGED <<config, output_artifact_ids_, work_items_, store, generated,
                 pre_store, instance>>

\* Variant: curr_bytes is not reset at the top of the for-body.
ForBody_KeepsBytes ==
  /\ pc = "for"
  /\ op_i < num_operations_
  /\ curr_bytes' = curr_bytes
  /\ put_request' = <<>>
  /\ \E n \in num_events_config.minimum..num_events_config.maximum :
       /\ num_events' = n
       /\ demand' = demand + n
  /\ ev_i' = 0
  /\ pc' = "while"
  /\ draw' = NoDraw
  /\ sent' = NoRequest
  /\ UNCHANGED <<config, output_artifact_ids_, work_items_, store, phase, status, op_i,
                 setup_base, eligible, generated, pre_store, next_run, n_setups,
                 instance>>

\* Line 184, i < num_operations_: lines 185-187.
ForBody ==
  /\ pc = "for"
  /\ op_i < num_operations_
  /\ curr_bytes' = 0
  /\ put_request' = <<>>
  /\ \E n \in num_events_config.minimum..num_events_config.maximum :
       /\ num_events' = n
       /\ demand' = demand + n
  /\ ev_i' = 0
  /\ pc' = "while"
  /\ draw' = NoDraw
  /\ sent' = NoRequest
  /\ UNCHANGED <<config, output_artifact_ids_, work_items_, store, phase, status, op_i,
                 setup_base, eligible, generated, pre_store, next_run, n_setups,
                 instance>>

\* Line 184, i = num_operations_: line 195.
ForExit ==
  /\ pc = "for"
  /\ ~(op_i < num_operations_)
  /\ pc' = "idle"
  /\ phase' = "Ready"
  /\ status' = [op |-> "SetUp", code |-> "OK"]
  /\ draw' = NoDraw
  /\ ResetLocals
  /\ sent' = NoRequest
  /\ UNCHANGED <<config, output_artifact_ids_, work_items_, store, setup_ghosts,
                 generated, pre_store, next_run, n_setups, instance>>

\* ------------------------------------------------------------ GenerateEvent
\* Lines 141-143: the draw is accepted.
Accept(artifact_id, execution_id, ids, in_setup, queried, st) ==
  /\ output_artifact_ids_' = ids
  /\ put_request' = Append(put_request, SetEvent(artifact_id, execution_id))
  /\ curr_bytes' = curr_bytes + GetTransferredBytes(SetEvent(artifact_id, execution_id))
  /\ ev_i' = ev_i + 1
  /\ generated' = IF specification = "OUTPUT"
                    THEN [generated EXCEPT ![artifact_id] = @ + 1]
                    ELSE generated
  /\ draw' = [kind |-> "accepted", artifact_id |-> artifact_id,
              execution_id |-> execution_id, in_setup |-> in_setup,
              queried |-> queried, status |-> st]
  /\ UNCHANGED <<pc, phase, status, work_items_, op_i, num_events>>

\* Variant: the loop counter advances on a rejected draw too.
Reject_CountsDraw(artifact_id, execution_id, ids, in_setup, st) ==
  /\ output_artifact_ids_' = ids
  /\ ev_i' = ev_i + 1
  /\ draw' = [kind |-> "rejected", artifact_id |-> artifact_id,
              execution_id |-> execution_id, in_setup |-> in_setup,
              queried |-> TRUE, status |-> st]
  /\ UNCHANGED <<pc, phase, status, work_items_, op_i, num_events, put_request,
                 curr_bytes, generated>>

\* Line 138: continue.
Reject(artifact_id, execution_id, ids, in_setup, st) ==
  /\ output_artifact_ids_' = ids
  /\ draw' = [kind |-> "rejected", artifact_id |-> artifact_id,
              execution_id |-> execution_id, in_setup |-> in_setup,
              queried |-> TRUE, status |-> st]
  /\ UNCHANGED <<pc, phase, status, work_items_, locals, generated>>

\* Variant: the insertion of the run-scoped check is undone when the query fails.
Abort_RollsBack(artifact_id, execution_id, ids, in_setup, st) ==
  /\ output_artifact_ids_' = output_artifact_ids_
  /\ pc' = "idle"
  /\ phase' = "Failed"
  /\ status' = [op |-> "SetUp", code |-> st]
  /\ draw' = [kind |-> "aborted", artifact_id |-> artifact_id,
              execution_id |-> execution_id, in_setup |-> in_setup,
              queried |-> TRUE, status |-> st]
  /\ ResetLocals
  /\ UNCHANGED <<work_items_, generated>>

\* Line 134 and the TF_RETURN_IF_ERROR of line 188: SetUpImpl returns the status.
Abort(artifact_id, execution_id, ids, in_setup, st) ==
  /\ output_artifact_ids_' = ids
  /\ pc' = "idle"
  /\ phase' = "Failed"
  /\ status' = [op |-> "SetUp", code |-> st]
  /\ draw' = [kind |-> "aborted", artifact_id |-> artifact_id,
              execution_id |-> execution_id, in_setup |-> in_setup,
              queried |-> TRUE, status |-> st]
  /\ ResetLocals
  /\ UNCHANGED <<work_items_, generated>>

\* Variant: the store is queried only when the run-scoped check found the artifact
\* not used; a used artifact is rejected at once.
OutputDraw_LocalFirst(artifact_id, execution_id, outcome) ==
  LET chk == CheckDuplicateOutputArtifactInCurrentSetUp(artifact_id, output_artifact_ids_)
      st == CheckDuplicateOutputArtifactInDb(artifact_id, outcome)
  IN IF chk.used
       THEN /\ output_artifact_ids_' = chk.ids
            /\ draw' = [kind |-> "rejected", artifact_id |-> artifact_id,
                        execution_id |-> execution_id, in_setup |-> TRUE,
                        queried |-> FALSE, status |-> "OK"]
            /\ UNCHANGED <<pc, phase, status, work_items_, locals, generated>>
       ELSE IF Aborts(st)
              THEN Abort(artifact_id, execution_id, chk.ids, chk.used, st)
              ELSE IF Rejected(chk.used, st)
                     THEN Reject(artifact_id, execution_id, chk.ids, chk.used, st)
                     ELSE Accept(artifact_id, execution_id, chk.ids, chk.used, TRUE, st)

\* Lines 127-140 for an OUTPUT workload.
OutputDraw(artifact_id, execution_id, outcome) ==
  LET chk == CheckDuplicateOutputArtifactInCurrentSetUp(artifact_id, output_artifact_ids_)
      st == CheckDuplicateOutputArtifactInDb(artifact_id, outcome)
  IN IF Aborts(st)
       THEN Abort(artifact_id, execution_id, chk.ids, chk.used, st)
       ELSE IF Rejected(chk.used, st)
              THEN Reject(artifact_id, execution_id, chk.ids, chk.used, st)
              ELSE Accept(artifact_id, execution_id, chk.ids, chk.used, TRUE, st)

\* Variant: the test of line 127 is lost, the duplicate checks are made whatever the
\* configured type.
WhileBody_AlwaysChecks(a_idx) ==
  /\ pc = "while"
  /\ ev_i < num_events
  /\ \E e_idx \in 1..Len(existing_execution_nodes) :
       \E outcome \in QueryOutcomes :
         OutputDraw(existing_artifact_nodes[a_idx], existing_execution_nodes[e_idx],
                    outcome)
  /\ sent' = NoRequest
  /\ UNCHANGED <<config, store, setup_ghosts, pre_store, next_run, n_setups,
                 instance>>

\* Line 119, i < num_events: one pass through the body with the artifact of index
\* a_idx and the execution of index e_idx drawn.
WhileBody(a_idx) ==
  /\ pc = "while"
  /\ ev_i < num_events
  /\ \E e_idx \in 1..Len(existing_execution_nodes) :
       LET artifact_id == existing_artifact_nodes[a_idx]
           execution_id == existing_execution_nodes[e_idx]
       IN IF specification = "OUTPUT"
            THEN \E outcome \in QueryOutcomes :
                   OutputDraw(artifact_id, execution_id, outcome)
            ELSE Accept(artifact_id, execution_id, output_artifact_ids_, FALSE, FALSE, "OK")
  /\ sent' = NoRequest
  /\ UNCHANGED <<config, store, setup_ghosts, pre_store, next_run, n_setups,
                 instance>>

\* Line 119, i = num_events: GenerateEvent returns OK; line 192, the end of the
\* for-body (put_request goes out of scope) and line 184 (++i).
WhileExit ==
  /\ pc = "while"
  /\ ~(ev_i < num_events)
  /\ work_items_' = Append(work_items_, [request |-> put_request, bytes |-> curr_bytes])
  /\ put_request' = <<>>
  /\ op_i' = op_i + 1
  /\ pc' = "for"
  /\ draw' = NoDraw
  /\ sent' = NoRequest
  /\ UNCHANGED <<config, output_artifact_ids_, store, phase, status, num_events, ev_i,
                 curr_bytes, setup_ghosts, generated, pre_store,
                 next_run, n_setups, instance>>

\* ---------------------------------------------------------------- RunOpImpl
\* Variant: the request is moved out of work_items_ instead of copied.
RunOpImpl_ConsumesBatch(work_items_index, outcome) ==
  /\ sent' = work_items_[work_items_index + 1].request
  /\ store' = IF outcome = "OK" THEN PutEvents(work_items_[work_items_index + 1].request)
                                ELSE store
  /\ status' = [op |-> "Run", code |-> outcome]
  /\ work_items_' = [work_items_ EXCEPT ![work_items_index + 1].request = <<>>]
  /\ UNCHANGED output_artifact_ids_

\* Variant: the status of PutEvents is dropped and OK is returned.
RunOpImpl_IgnoresStatus(work_items_index, outcome) ==
  /\ sent' = work_items_[work_items_index + 1].request
  /\ store' = IF outcome = "OK" THEN PutEvents(work_items_[work_items_index + 1].request)
                                ELSE store
  /\ status' = [op |-> "Run", code |-> "OK"]
  /\ UNCHANGED <<work_items_, output_artifact_ids_>>

\* Lines 198-203.
RunOpImpl(work_items_index, outcome) ==
  /\ sent' = work_items_[work_items_index + 1].request
  /\ store' = IF outcome = "OK" THEN PutEvents(work_items_[work_items_index + 1].request)
                                ELSE store
  /\ status' = [op |-> "Run", code |-> outcome]
  /\ UNCHANGED <<work_items_, output_artifact_ids_>>

RunOp ==
  /\ HarnessMayCall("Run")
  /\ \E outcome \in WriteOutcomes : RunOpImpl(next_run, outcome)
  /\ next_run' = next_run + 1
  /\ draw' = NoDraw
  /\ UNCHANGED <<config, pc, phase, locals, setup_ghosts, generated, pre_store,
                 n_setups, instance>>

\* ------------------------------------------------------------- TearDownImpl
TearDownImpl ==
  /\ work_items_' = <<>>
  /\ status' = [op |-> "TearDown", code |-> "OK"]
  /\ UNCHANGED output_artifact_ids_

TearDown ==
  /\ HarnessMayCall("TearDown")
  /\ TearDownImpl
  /\ phase' = IF phase \in {"Ready", "Done"} THEN "Done" ELSE phase
  /\ draw' = NoDraw
  /\ sent' = NoRequest
  /\ UNCHANGED <<config, store, pc, locals, setup_ghosts, generated, pre_store,
                 next_run, n_setups, instance>>

\* ------------------------------------------------------------------- Next
Draw == \E a_idx \in 1..Len(existing_artifact_nodes) : WhileBody(a_idx)

Next ==
  \/ Construct
  \/ SetUpBegin
  \/ ForBody
  \/ ForExit
  \/ Draw
  \/ WhileExit
  \/ RunOp
  \/ TearDown

Spec == Init /\ [][Next]_vars

\* One OUTPUT workload instance through its lifecycle, every step of SetUp that can
\* be taken being eventually taken and every artifact index being drawn again and
\* again while the while-loop runs (each index has a positive weight).
InitOutput == Init /\ specification = "OUTPUT"

LifecycleNext ==
  \/ SetUpBegin
  \/ ForBody
  \/ ForExit
  \/ Draw
  \/ WhileExit
  \/ RunOp
  \/ TearDown

FairSampling ==
  /\ WF_vars(ForBody)
  /\ WF_vars(ForExit)
  /\ WF_vars(WhileExit)
  /\ \A a_idx \in 1..Len(existing_artifact_nodes) : WF_vars(WhileBody(a_idx))

FairSpec == InitOutput /\ [][LifecycleNext]_vars /\ FairSampling

\* ================================================================= claims
\* Number of OUTPUT events referencing artifact a in a request.
OutputsIn(req, a) ==
  Cardinality({k \in 1..Len(req) : req[k].type = "OUTPUT" /\ req[k].artifact_id = a})

RECURSIVE OutputsInItems(_, _)
OutputsInItems(items, a) ==
  IF items = <<>> THEN 0
  ELSE OutputsIn(Head(items).request, a) + OutputsInItems(Tail(items), a)

\* OUTPUT events referencing a in the batches the instance holds or is building.
HeldOutputs(a) == OutputsInItems(work_items_, a) + OutputsIn(put_request, a)

\* OUTPUT events referencing a that the store held before this instance.
PreExistingOutputs(a) == IF <<a, "OUTPUT">> \in pre_store THEN 1 ELSE 0

\* C1: for an OUTPUT workload, in every state, for every artifact id, the OUTPUT
\* events referencing it in the batches this instance generated (held ones and all
\* ever generated) plus the pre-existing OUTPUT events of the store are at most 1.
C1_AtMostOneOutputPerArtifact ==
  specification = "OUTPUT" =>
    \A a \in ArtifactIds :
      /\ generated[a] + PreExistingOutputs(a) <= 1
      /\ HeldOutputs(a) + PreExistingOutputs(a) <= 1

\* C1 witness: SetUp has generated an OUTPUT event for one artifact and has drawn
\* (and not used) another one that had an OUTPUT event in the store.
C1_Witness ==
  /\ specification = "OUTPUT"
  /\ \E a, b \in ArtifactIds :
       /\ generated[a] = 1 /\ HeldOutputs(a) = 1
       /\ <<b, "OUTPUT">> \in pre_store /\ b \in output_artifact_ids_

\* C2: after a SetUp that failed on a store query error (here: one that is not
\* NOT_FOUND), the executor holds none of the batches that SetUp generated before it
\* failed.
C2_NoPartialWorkload ==
  (pc = "idle" /\ status.op = "SetUp" /\ status.code \notin {"OK", "NOT_FOUND"}) =>
    Len(work_items_) = setup_base

\* C3: a NOT_FOUND result of the store's event query during the duplicate-output check
\* does not abort SetUp, and the candidate is accepted if the run-scoped check passed.
C3_NotFoundIsNotAnError ==
  (draw.kind # "none" /\ draw.status = "NOT_FOUND") =>
    /\ draw.kind # "aborted"
    /\ ~draw.in_setup => draw.kind = "accepted"

\* C4: a SetUp that follows the TearDown of a successful SetUp starts with the
\* run-scoped output-artifact set reset (empty).
C4_SetResetAtSetUp ==
  [][(pc = "idle" /\ phase = "Done" /\ pc' = "for") => output_artifact_ids_' = {}]_vars

\* C5: every batch SetUp stores holds exactly num_events events, num_events being the
\* value drawn for that operation from [minimum, maximum]; while the batch is built the
\* loop counter equals the number of events in it, whatever draws were rejected.
C5_BatchHasNumEvents ==
  /\ (pc = "while") =>
       /\ ev_i = Len(put_request)
       /\ ev_i <= num_events
       /\ num_events \in num_events_config.minimum..num_events_config.maximum
  /\ (pc = "for" /\ op_i > 0) =>
       /\ Len(work_items_) > 0
       /\ Len(work_items_[Len(work_items_)].request) = num_events
       /\ num_events \in num_events_config.minimum..num_events_config.maximum

\* C5 witness: in the first SetUp of the first instance a batch was just stored after
\* a draw of its operation had been rejected.
C5_Witness ==
  /\ specification = "OUTPUT" /\ instance = "first" /\ n_setups = 1
  /\ pc = "for" /\ op_i = 1
  /\ Len(work_items_[Len(work_items_)].request) = num_events_config.maximum
  /\ \E a \in output_artifact_ids_ : generated[a] = 0

\* C6: after any successful SetUp the executor holds exactly num_operations batches.
C6_ExactlyNumOperationsBatches ==
  phase = "Ready" => Len(work_items_) = num_operations_

\* C7: when the store's event query of an OUTPUT duplicate check fails with an error
\* other than ALREADY_EXISTS, SetUp returns at once with that error: the draw is the
\* last one, nothing is retried.
C7_QueryErrorAbortsSetUp ==
  (draw.kind # "none" /\ draw.queried /\ draw.status \notin {"OK", "ALREADY_EXISTS"}) =>
    /\ draw.kind = "aborted"
    /\ pc = "idle"
    /\ phase = "Failed"
    /\ status = [op |-> "SetUp", code |-> draw.status]

\* C7 witness: a draw's query failed with INTERNAL after a batch had been stored.
C7_Witness ==
  /\ draw.kind = "aborted"
  /\ draw.status = "INTERNAL"
  /\ status = [op |-> "SetUp", code |-> "INTERNAL"]
  /\ Len(work_items_) > setup_base

\* C8: an OUTPUT workload's SetUp that asked for more events than there were eligible
\* artifacts when it began never returns success.
C8_NoSuccessBeyondSupply ==
  (specification = "OUTPUT" /\ phase = "Ready") => demand <= Cardinality(eligible)

\* C8 witness: the second instance, set up after the first one's batch was written,
\* finds no eligible artifact and has its draw rejected.
C8_Witness ==
  /\ specification = "OUTPUT" /\ instance = "second"
  /\ pc = "while"
  /\ eligible = {}
  /\ demand > Cardinality(eligible)
  /\ draw.kind = "rejected"
  /\ \A a \in ArtifactIds : <<a, "OUTPUT">> \in store

\* C9: under fair sampling, an OUTPUT workload's SetUp whose requested events do not
\* exceed the eligible artifacts and whose store queries do not fail eventually
\* returns success.
C9_SetUpTerminates ==
  (pc # "idle") ~>
    \/ (pc = "idle" /\ phase = "Ready")
    \/ phase = "Failed"
    \/ demand > Cardinality(eligible)

\* C9 witness: SetUp succeeded with as many events requested as artifacts were
\* eligible, all artifacts being eligible.
C9_Witness ==
  /\ specification = "OUTPUT"
  /\ pc = "idle" /\ phase = "Ready"
  /\ eligible = ArtifactIds
  /\ demand = Cardinality(eligible)

\* C10: a Run call leaves the stored batches (contents, order, byte estimates) and
\* the run-scoped output-artifact set unchanged, whether the write succeeds or fails.
C10_RunLeavesBatchesAlone ==
  [][next_run' = next_run + 1 =>
       /\ work_items_' = work_items_
       /\ output_artifact_ids_' = output_artifact_ids_]_vars

\* C10 witness: a Run of an OUTPUT workload whose write failed, after one that succeeded.
C10_Witness ==
  /\ specification = "OUTPUT"
  /\ status = [op |-> "Run", code |-> "INTERNAL"]
  /\ next_run = 2
  /\ \E a \in ArtifactIds : <<a, "OUTPUT">> \in store /\ generated[a] = 1

\* The <<artifact id, type>> pairs of the events of a request.
EventsOf(req) == {<<req[k].artifact_id, req[k].type>> : k \in 1..Len(req)}

\* C11: a Run call hands the batch of its index, and no other, to the store's batch
\* write, and returns what the write returned: OK exactly when the events of that
\* batch were written, the store's error when they were not (the store is then as
\* it was).
C11_RunSendsBatchReturnsOutcome ==
  [][next_run' = next_run + 1 =>
       /\ sent' = work_items_[next_run + 1].request
       /\ status'.op = "Run"
       /\ status'.code \in WriteOutcomes
       /\ status'.code = "OK" => store' = store \cup EventsOf(sent')
       /\ status'.code # "OK" => store' = store]_vars

\* C11 witness: the Run of index 1 has just sent the second batch, which differs from
\* the first, and returned the error of the write.
C11_Witness ==
  /\ next_run = 2
  /\ Len(work_items_) = 2
  /\ sent = work_items_[2].request
  /\ sent # work_items_[1].request
  /\ status = [op |-> "Run", code |-> "INTERNAL"]
  /\ ~(EventsOf(sent) \subseteq store)

\* A TearDown call that follows a TearDown call changes nothing.
TearDownTwiceAsOnce ==
  [][(status.op = "TearDown" /\ status'.op = "TearDown") =>
       UNCHANGED <<work_items_, output_artifact_ids_, store, phase, status>>]_vars

\* After a TearDown call the instance holds no batch and the call returned OK.
TearDownReleasesBatches ==
  status.op = "TearDown" => (work_items_ = <<>> /\ status.code = "OK")

\* C12: TearDown returns OK from any state, a second TearDown changes nothing, and
\* after TearDown nothing of the run is left in the instance: no batch and no id in
\* the run-scoped output-artifact set.
C12_TearDownIdempotentNoResidue ==
  [][status'.op = "TearDown" =>
       /\ status'.code = "OK"
       /\ status.op = "TearDown" =>
            UNCHANGED <<work_items_, output_artifact_ids_, store, phase, status>>
       /\ work_items_' = <<>>
       /\ output_artifact_ids_' = {}]_vars

\* Number of events referencing artifact a in a request.
EventsIn(req, a) == Cardinality({k \in 1..Len(req) : req[k].artifact_id = a})

\* C13: in an INPUT workload every pass of the while-loop accepts its draw without
\* querying the store, and the run-scoped output-artifact set stays as constructed
\* (empty), so nothing bounds the events that reference one artifact.
C13_InputDrawsUnchecked ==
  specification = "INPUT" =>
    /\ output_artifact_ids_ = {}
    /\ draw.kind # "none" => (draw.kind = "accepted" /\ ~draw.queried)
    /\ pc = "while" => ev_i = Len(put_request)

\* C13 witness: a batch of an INPUT workload in which both events reference one
\* artifact, for which the store already holds an INPUT event.
C13_Witness ==
  /\ specification = "INPUT"
  /\ draw.kind = "accepted"
  /\ EventsIn(put_request, draw.artifact_id) = 2
  /\ <<draw.artifact_id, "INPUT">> \in store

RECURSIVE SumEventBytes(_)
\* Sum of the per-event estimates of a request.
SumEventBytes(req) ==
  IF req = <<>> THEN 0 ELSE GetTransferredBytes(Head(req)) + SumEventBytes(Tail(req))

\* C14: the byte estimate stored with a batch is the sum of the estimates of the
\* events of that batch, each 17 plus the length of the key "foo", i.e. 20 times the
\* number of its events; the same holds of curr_bytes and the batch being built,
\* whatever draws were rejected and whatever batches were built before.
C14_BytesPerBatch ==
  /\ \A k \in 1..Len(work_items_) :
       /\ work_items_[k].bytes = SumEventBytes(work_items_[k].request)
       /\ work_items_[k].bytes = (17 + Len(FooKey)) * Len(work_items_[k].request)
       /\ work_items_[k].bytes = 20 * Len(work_items_[k].request)
  /\ pc = "while" => curr_bytes = 20 * Len(put_request)

\* C14 witness: SetUp has stored a batch of two events with 40 bytes, and in the next
\* batch a draw has just been rejected: curr_bytes is 0.
C14_Witness ==
  /\ specification = "OUTPUT"
  /\ Len(work_items_) = 1 /\ setup_base = 0
  /\ Len(work_items_[1].request) = 2 /\ work_items_[1].bytes = 40
  /\ pc = "while" /\ op_i = 1
  /\ draw.kind = "rejected"
  /\ curr_bytes = 0

\* The events of a request satisfy the population and type constraints.
WellFormedRequest(req) ==
  \A k \in 1..Len(req) :
    /\ req[k].artifact_id \in ArtifactIds
    /\ req[k].execution_id \in ExecutionIds
    /\ req[k].type = specification

\* C15: every event of every batch generated (stored, being built, or sent) has the
\* id of a node of existing_artifact_nodes as artifact_id, the id of a node of
\* existing_execution_nodes as execution_id, and the configured type as type.
C15_EventsFromPopulation ==
  /\ \A k \in 1..Len(work_items_) : WellFormedRequest(work_items_[k].request)
  /\ WellFormedRequest(put_request)
  /\ WellFormedRequest(sent)

\* C15 witness: SetUp of an INPUT workload has returned OK with two batches of two
\* events that reference, between them, every artifact of the population.
C15_Witness ==
  /\ specification = "INPUT"
  /\ phase = "Ready"
  /\ Len(work_items_) = 2
  /\ \A k \in 1..2 : Len(work_items_[k].request) = 2
  /\ \A a \in ArtifactIds : \E k \in 1..2 : EventsIn(work_items_[k].request, a) > 0

C17_RejectedExactlyWhenUsed ==
  [][(specification = "OUTPUT" /\ draw'.kind # "none") =>
       (draw'.kind = "rejected" /\ pc' = "while") <=>
         (draw'.in_setup \/ draw'.status = "ALREADY_EXISTS")]_vars

\* C17, amended: a draw of an OUTPUT workload whose store query did not fail is rejected
\* exactly when the run-scoped check reported the artifact used or the store check
\* returned ALREADY_EXISTS (the store holds an OUTPUT event for it), and is accepted
\* otherwise.  A rejected draw leaves SetUp running in the same while-loop with the
\* batch, the loop counter, the byte estimate, the stored batches and the store as
\* they were, and changes only the run-scoped set, by at most the drawn artifact.
C17_RejectedDrawIsRetried ==
  [][(specification = "OUTPUT" /\ draw'.kind # "none") =>
       /\ draw'.status \in {"OK", "ALREADY_EXISTS"} =>
            /\ draw'.kind \in {"rejected", "accepted"}
            /\ draw'.kind = "rejected" <=>
                 (draw'.in_setup \/ draw'.status = "ALREADY_EXISTS")
            /\ draw'.status = "ALREADY_EXISTS" <=>
                 <<draw'.artifact_id, "OUTPUT">> \in store
       /\ draw'.kind = "rejected" =>
            /\ draw'.status \in {"OK", "ALREADY_EXISTS"}
            /\ pc' = "while" /\ phase' = "SetUp" /\ status' = status
            /\ ev_i' < num_events'
            /\ UNCHANGED <<put_request, ev_i, num_events, op_i, curr_bytes,
                           work_items_, store, generated>>
            /\ output_artifact_ids_' = output_artifact_ids_ \cup {draw'.artifact_id}]_vars

\* C17 witness: after one event was accepted into the batch, a draw that passed the
\* run-scoped check is rejected because the store holds an OUTPUT event for the
\* artifact; the artifact is in the set now.
C17_Witness ==
  /\ draw.kind = "rejected"
  /\ ~draw.in_setup
  /\ draw.status = "ALREADY_EXISTS"
  /\ draw.artifact_id \in output_artifact_ids_
  /\ pc = "while" /\ ev_i = 1 /\ Len(put_request) = 1 /\ curr_bytes = 20

\* C18: every pass of the while-loop of an OUTPUT workload queries the store, whatever
\* the run-scoped check returned; and when the run-scoped check has found the
\* artifact used and the query fails with an error other than ALREADY_EXISTS, SetUp
\* returns that error.
C18_StoreQueriedOnEveryDraw ==
  (specification = "OUTPUT" /\ draw.kind # "none") =>
    /\ draw.queried
    /\ (draw.in_setup /\ draw.status \notin {"OK", "ALREADY_EXISTS"}) =>
         /\ draw.kind = "aborted"
         /\ pc = "idle" /\ phase = "Failed"
         /\ status = [op |-> "SetUp", code |-> draw.status]

\* C18 witness: the artifact of an event already accepted by this SetUp is drawn
\* again, the run-scoped check finds it used, the query fails and SetUp has returned
\* the error.
C18_Witness ==
  /\ draw.kind = "aborted"
  /\ draw.in_setup /\ draw.queried
  /\ draw.status = "INTERNAL"
  /\ generated[draw.artifact_id] = 1
  /\ phase = "Failed"
  /\ status = [op |-> "SetUp", code |-> "INTERNAL"]

\* C19: when the store query fails for a candidate that the run-scoped check has just
\* inserted, SetUp returns the error with the id in the run-scoped set and no event
\* generated for it; and as long as the instance lives, an id that is in the set
\* stays there and no further event is generated for it: every later draw of it is
\* rejected, whether or not an OUTPUT event references it.
C19_FailedDrawStaysInSet ==
  [][/\ (draw'.kind = "aborted" /\ ~draw'.in_setup) =>
          /\ draw'.artifact_id \notin output_artifact_ids_
          /\ draw'.artifact_id \in output_artifact_ids_'
          /\ generated' = generated
          /\ work_items_' = work_items_
          /\ store' = store
          /\ phase' = "Failed"
     /\ instance' = instance =>
          \A a \in output_artifact_ids_ :
            /\ a \in output_artifact_ids_'
            /\ generated'[a] = generated[a]
            /\ (draw'.kind # "none" /\ draw'.artifact_id = a) => draw'.kind # "accepted"]_vars

\* C19 witness: in the SetUp after the one that failed on the query for an artifact,
\* the draw of that artifact is rejected by the run-scoped check although the store
\* (as the query just answered) holds no OUTPUT event for it and the instance has
\* generated none.
C19_Witness ==
  /\ specification = "OUTPUT" /\ instance = "first" /\ n_setups = 2
  /\ draw.kind = "rejected"
  /\ draw.in_setup
  /\ draw.status = "OK"
  /\ generated[draw.artifact_id] = 0
  /\ HeldOutputs(draw.artifact_id) = 0
  /\ <<draw.artifact_id, "OUTPUT">> \notin store

====
